---------------------------- MODULE Spec2Model ----------------------------
(***************************************************************************)
(* Model of the two data structures of the repository:                     *)
(*   src/graph_list.cpp  Grafo<T>: adjacency lists, DFS, BFS, dijkstra     *)
(*   src/seg_tree.cpp    SegmentTree<T>: range sum with point update       *)
(*                                                                         *)
(* C++ vectors indexed from 0 are modelled in two ways: the outer vectors  *)
(* (one slot per node) are functions on 0..n-1; the inner vectors, stacks  *)
(* and queues are TLA+ sequences, so C++ index i is sequence index i+1.    *)
(***************************************************************************)
EXTENDS Integers, Sequences, FiniteSets, TLC

\* ------------------------------------------------------------- bounds ----
MaxNodes == 3
\* edges per graph under Spec, and under SpecDijkstra
MaxEdges == 3
MaxEdgesDijkstra == 2
\* length of the array a SegmentTree is built from
MaxLen == 4
\* T is an unsigned integer type (size_t in main); Width is its scaled-down
\* number of bits, so that wrap-around of T's arithmetic stays reachable.
Width == 7

Pow2(k) == 2 ^ k
\* numeric_limits<T>::max()
MaxT == Pow2(Width) - 1
\* weights offered to add_edge: a small one and one next to max(T)
Weights == {1, MaxT - 1}

VARIABLES
    adjacency_list,     \* Grafo::adjacency_list : node -> sequence of nodes
    weights,            \* Grafo::weights        : node -> sequence of T
    edges,              \* history: the edges inserted so far, as {a,b} and w
    pc,                 \* "idle", "loop", "reconstruct", "returned", "crashed"
    alg,                \* the running query: "none", "DFS", "BFS", "dijkstra"
    src, dst,           \* its arguments
    path,               \* local predecessor vector
    visited,            \* local vector<bool>
    costs,              \* local cost vector (dijkstra)
    to_visit,           \* local stack (DFS) or queue (BFS)
    priority_queue,     \* local min-priority queue of <<cost, node>> (dijkstra)
    node,               \* loop variable of the backward walk
    reconstructed_path, \* local result vector
    fault,              \* TRUE once the walk read path[] out of bounds
    tree,               \* SegmentTree::tree     : 0..size-1 -> T
    arr,                \* SegmentTree::arr      : 0..arr_size-1 -> T
    arr_size,           \* SegmentTree::arr_size
    call                \* history: the last public call, what it returned,
                        \* and whether an update was ever made

graph_vars == <<adjacency_list, weights, edges>>
query_vars == <<pc, alg, src, dst, path, visited, costs, to_visit,
                priority_queue, node, reconstructed_path, fault>>
seg_vars == <<tree, arr, arr_size, call>>
vars == <<adjacency_list, weights, edges, pc, alg, src, dst, path, visited,
          costs, to_visit, priority_queue, node, reconstructed_path, fault,
          tree, arr, arr_size, call>>

Nodes == DOMAIN adjacency_list

Min2(a, b) == IF a <= b THEN a ELSE b
Max2(a, b) == IF a <= b THEN b ELSE a

\* ----------------------------------------------- construction, add_edge --
\* Grafo(n): n empty adjacency and weight lists
Grafo(n) ==
    /\ adjacency_list = [v \in 0 .. n - 1 |-> <<>>]
    /\ weights = [v \in 0 .. n - 1 |-> <<>>]

\* no query is running: the locals of the query methods do not exist
NoQuery ==
    /\ pc = "idle" /\ alg = "none" /\ src = 0 /\ dst = 0
    /\ path = <<>> /\ visited = <<>> /\ costs = <<>>
    /\ to_visit = <<>> /\ priority_queue = <<>>
    /\ node = 0 /\ reconstructed_path = <<>> /\ fault = FALSE

\* mutant of add_edge_adjacency: the edge is stored in one direction only
add_edge_adjacency_directed(from, to) ==
    [adjacency_list EXCEPT ![from] = Append(@, to)]

\* mutant of add_edge_adjacency: a pair that is already joined is not
\* entered again
add_edge_adjacency_dedup(from, to) ==
    IF \E i \in 1 .. Len(adjacency_list[from]) : adjacency_list[from][i] = to
    THEN adjacency_list
    ELSE LET first == [adjacency_list EXCEPT ![from] = Append(@, to)]
         IN  [first EXCEPT ![to] = Append(@, from)]

\* the two push_back calls on adjacency_list, in program order
add_edge_adjacency(from, to) ==
    LET first == [adjacency_list EXCEPT ![from] = Append(@, to)]
    IN  [first EXCEPT ![to] = Append(@, from)]

\* the two push_back calls on weights, in program order
add_edge_weights(from, to, weight) ==
    LET first == [weights EXCEPT ![from] = Append(@, weight)]
    IN  [first EXCEPT ![to] = Append(@, weight)]

add_edge(from, to, weight) ==
    /\ pc = "idle"
    /\ adjacency_list' = add_edge_adjacency(from, to)
    /\ weights' = add_edge_weights(from, to, weight)
    /\ edges' = edges \cup {<<Min2(from, to), Max2(from, to), weight>>}
    /\ UNCHANGED <<query_vars, seg_vars>>

\* vec[id].push_back(x) as far as the vectors of the graph can show it: a
\* write through an id outside [0, n) lands outside their elements
push_back_at(vec, id, x) ==
    IF id \in DOMAIN vec THEN [vec EXCEPT ![id] = Append(@, x)] ELSE vec

\* the four statements of add_edge in program order: <<vector, id, value>>
add_edge_statements(from, to, weight) ==
    << <<"adjacency_list", from, to>>, <<"adjacency_list", to, from>>,
       <<"weights", from, weight>>, <<"weights", to, weight>> >>

\* the named vector after the first k statements of stmts
RECURSIVE after_statements(_, _, _, _)
after_statements(vec, name, stmts, k) ==
    IF k = 0 THEN vec
    ELSE LET before == after_statements(vec, name, stmts, k - 1)
         IN  IF stmts[k][1] = name
             THEN push_back_at(before, stmts[k][2], stmts[k][3])
             ELSE before

\* add_edge with from or to outside [0, n): operator[] is not checked, so
\* every statement that indexes with the bad id is undefined behaviour. The
\* program dies at one of them (stop names it), or survives them all
\* (stop = 5) and add_edge returns. The statements before stop have run.
\* The model follows the program no further after undefined behaviour.
add_edge_unchecked(from, to, weight) ==
    /\ pc = "idle" /\ ~fault
    /\ from \notin Nodes \/ to \notin Nodes
    /\ LET stmts == add_edge_statements(from, to, weight)
       IN  \E stop \in {k \in 1 .. 4 : stmts[k][2] \notin Nodes} \cup {5} :
              /\ adjacency_list' = after_statements(adjacency_list, "adjacency_list",
                                                     stmts, stop - 1)
              /\ weights' = after_statements(weights, "weights", stmts, stop - 1)
              /\ pc' = IF stop = 5 THEN "idle" ELSE "crashed"
    /\ fault' = TRUE
    /\ call' = [op |-> "add_edge", from |-> from, to |-> to,
                before |-> adjacency_list, updated |-> FALSE]
    /\ UNCHANGED <<edges, alg, src, dst, path, visited, costs, to_visit,
                   priority_queue, node, reconstructed_path, tree, arr, arr_size>>

RECURSIVE SumLen(_, _)
SumLen(vec, k) == IF k < 0 THEN 0 ELSE Len(vec[k]) + SumLen(vec, k - 1)
\* number of add_edge calls so far (each call pushes two weights)
EdgeCount == SumLen(weights, Cardinality(DOMAIN weights) - 1) \div 2

\* ------------------------------------------------------------ DFS, BFS ---
\* body of the neighbour loop of DFS for neighbour n;
\* st = [to_visit, path, visited] are the locals as the loop body finds them
DFSVisit(current, n, st) ==
    IF ~st.visited[n]
    THEN [st EXCEPT !.to_visit = Append(@, n), !.path[n] = current]
    ELSE st

\* mutant of BFSVisit: a node already given a predecessor is left alone
BFSVisitFirstWins(current, n, st) ==
    IF ~st.visited[n] /\ st.path[n] = MaxT
    THEN [st EXCEPT !.to_visit = Append(@, n), !.path[n] = current]
    ELSE st

\* body of the neighbour loop of BFS for neighbour n;
\* st = [to_visit, path, visited] are the locals as the loop body finds them
BFSVisit(current, n, st) ==
    IF ~st.visited[n]
    THEN [st EXCEPT !.to_visit = Append(@, n), !.path[n] = current]
    ELSE st

RECURSIVE DFSScan(_, _, _)
DFSScan(current, i, st) ==
    IF i > Len(adjacency_list[current]) THEN st
    ELSE DFSScan(current, i + 1, DFSVisit(current, adjacency_list[current][i], st))

RECURSIVE BFSScan(_, _, _)
BFSScan(current, i, st) ==
    IF i > Len(adjacency_list[current]) THEN st
    ELSE BFSScan(current, i + 1, BFSVisit(current, adjacency_list[current][i], st))

\* DFS(src, dst) up to the first test of the while loop
StartDFS(s, d) ==
    /\ pc = "idle"
    /\ pc' = "loop" /\ alg' = "DFS" /\ src' = s /\ dst' = d
    /\ path' = [v \in Nodes |-> MaxT]
    /\ visited' = [v \in Nodes |-> FALSE]
    /\ to_visit' = <<s>>
    /\ UNCHANGED <<seg_vars, graph_vars, costs, priority_queue, node,
                   reconstructed_path, fault>>

\* BFS(src, dst) up to the first test of the while loop
StartBFS(s, d) ==
    /\ pc = "idle"
    /\ pc' = "loop" /\ alg' = "BFS" /\ src' = s /\ dst' = d
    /\ path' = [v \in Nodes |-> MaxT]
    /\ visited' = [v \in Nodes |-> FALSE]
    /\ to_visit' = <<s>>
    /\ UNCHANGED <<seg_vars, graph_vars, costs, priority_queue, node,
                   reconstructed_path, fault>>

\* leaving the while loop: the backward walk starts at node = dst
ToReconstruct ==
    /\ pc' = "reconstruct"
    /\ node' = dst

\* one test of the while condition of DFS and, if it holds, one iteration
DFSStep ==
    /\ pc = "loop" /\ alg = "DFS"
    /\ IF to_visit = <<>>
       THEN /\ ToReconstruct
            /\ UNCHANGED <<to_visit, visited, path>>
       ELSE LET current == to_visit[Len(to_visit)]
                popped == SubSeq(to_visit, 1, Len(to_visit) - 1)
            IN  IF current = dst
                THEN /\ ToReconstruct
                     /\ to_visit' = popped
                     /\ UNCHANGED <<visited, path>>
                ELSE IF visited[current]
                THEN /\ to_visit' = popped
                     /\ UNCHANGED <<pc, node, visited, path>>
                ELSE /\ LET st == DFSScan(current, 1,
                                     [to_visit |-> popped, path |-> path,
                                      visited |-> [visited EXCEPT ![current] = TRUE]])
                        IN  /\ to_visit' = st.to_visit
                            /\ path' = st.path
                            /\ visited' = st.visited
                     /\ UNCHANGED <<pc, node>>
    /\ UNCHANGED <<seg_vars, graph_vars, alg, src, dst, costs, priority_queue,
                   reconstructed_path, fault>>

\* one test of the while condition of BFS and, if it holds, one iteration
BFSStep ==
    /\ pc = "loop" /\ alg = "BFS"
    /\ IF to_visit = <<>>
       THEN /\ ToReconstruct
            /\ UNCHANGED <<to_visit, visited, path>>
       ELSE LET current == Head(to_visit)
                popped == Tail(to_visit)
            IN  IF current = dst
                THEN /\ ToReconstruct
                     /\ to_visit' = popped
                     /\ UNCHANGED <<visited, path>>
                ELSE IF visited[current]
                THEN /\ to_visit' = popped
                     /\ UNCHANGED <<pc, node, visited, path>>
                ELSE /\ LET st == BFSScan(current, 1,
                                     [to_visit |-> popped, path |-> path,
                                      visited |-> [visited EXCEPT ![current] = TRUE]])
                        IN  /\ to_visit' = st.to_visit
                            /\ path' = st.path
                            /\ visited' = st.visited
                     /\ UNCHANGED <<pc, node>>
    /\ UNCHANGED <<seg_vars, graph_vars, alg, src, dst, costs, priority_queue,
                   reconstructed_path, fault>>

\* ------------------------------------------------------------ dijkstra ---
\* greater<pair<T,T>> makes the queue a min-queue on <<cost, node>>,
\* compared lexicographically
PairLess(a, b) == a[1] < b[1] \/ (a[1] = b[1] /\ a[2] < b[2])

\* mutant of PQPush: the queue hands its entries out in insertion order
PQPushFifo(q, e) == Append(q, e)

\* priority_queue.push(e): the queue is kept as an ascending sequence, so
\* that top() is its head (equal pairs are indistinguishable)
RECURSIVE PQPush(_, _)
PQPush(q, e) ==
    IF q = <<>> THEN <<e>>
    ELSE IF PairLess(e, Head(q)) THEN <<e>> \o q
    ELSE <<Head(q)>> \o PQPush(Tail(q), e)

\* addition in T: unsigned, modulo 2^Width
AddT(a, b) == (a + b) % Pow2(Width)

\* mutant of InitCosts: costs[src] = 0 is forgotten
InitCostsAllMax(s) == [v \in Nodes |-> MaxT]

\* the initial cost vector: max(T) everywhere, then costs[src] = 0
InitCosts(s) == [v \in Nodes |-> IF v = s THEN 0 ELSE MaxT]

\* mutant of Relax: a cost is set only while it is still max(T)
RelaxFirstWins(current, i, st) ==
    LET adjacent_node == adjacency_list[current][i]
        adjacent_cost == weights[current][i]
        sum == AddT(st.costs[current], adjacent_cost)
    IN  IF st.costs[adjacent_node] = MaxT /\ sum < MaxT
        THEN [costs |-> [st.costs EXCEPT ![adjacent_node] = sum],
              priority_queue |-> PQPush(st.priority_queue, <<sum, adjacent_node>>),
              path |-> [st.path EXCEPT ![adjacent_node] = current]]
        ELSE st

\* body of the relaxation loop for index i (from 1) of current's lists;
\* st = [costs, priority_queue, path]
Relax(current, i, st) ==
    LET adjacent_node == adjacency_list[current][i]
        adjacent_cost == weights[current][i]
        sum == AddT(st.costs[current], adjacent_cost)
    IN  IF sum < st.costs[adjacent_node]
        THEN [costs |-> [st.costs EXCEPT ![adjacent_node] = sum],
              priority_queue |-> PQPush(st.priority_queue, <<sum, adjacent_node>>),
              path |-> [st.path EXCEPT ![adjacent_node] = current]]
        ELSE st

RECURSIVE RelaxAll(_, _, _)
RelaxAll(current, i, st) ==
    IF i > Len(adjacency_list[current]) THEN st
    ELSE RelaxAll(current, i + 1, Relax(current, i, st))

\* dijkstra(src, dst) up to the first test of the while loop;
\* vector<T> path(n) is value-initialised: all zeros
StartDijkstra(s, d) ==
    /\ pc = "idle"
    /\ pc' = "loop" /\ alg' = "dijkstra" /\ src' = s /\ dst' = d
    /\ path' = [v \in Nodes |-> 0]
    /\ visited' = [v \in Nodes |-> FALSE]
    /\ costs' = InitCosts(s)
    /\ priority_queue' = <<<<0, s>>>>
    /\ UNCHANGED <<seg_vars, graph_vars, to_visit, node, reconstructed_path, fault>>

\* one test of the while condition of dijkstra and, if it holds, one iteration
DijkstraStep ==
    /\ pc = "loop" /\ alg = "dijkstra"
    /\ IF priority_queue = <<>>
       THEN /\ ToReconstruct
            /\ UNCHANGED <<priority_queue, visited, costs, path>>
       ELSE LET current_cost == Head(priority_queue)[1]
                current_node == Head(priority_queue)[2]
                popped == Tail(priority_queue)
            IN  IF current_node = dst
                THEN /\ ToReconstruct
                     /\ priority_queue' = popped
                     /\ UNCHANGED <<visited, costs, path>>
                ELSE IF visited[current_node]
                THEN /\ priority_queue' = popped
                     /\ UNCHANGED <<pc, node, visited, costs, path>>
                ELSE /\ visited' = [visited EXCEPT ![current_node] = TRUE]
                     /\ IF current_cost # costs[current_node]
                        THEN /\ priority_queue' = popped
                             /\ UNCHANGED <<costs, path>>
                        ELSE LET st == RelaxAll(current_node, 1,
                                          [costs |-> costs,
                                           priority_queue |-> popped,
                                           path |-> path])
                             IN  /\ costs' = st.costs
                                 /\ priority_queue' = st.priority_queue
                                 /\ path' = st.path
                     /\ UNCHANGED <<pc, node>>
    /\ UNCHANGED <<seg_vars, graph_vars, alg, src, dst, to_visit,
                   reconstructed_path, fault>>

\* ------------------------------------------------- path reconstruction ---
\* the backward walk never collects more than MaxWalk nodes in the model: a
\* walk that collected more nodes than the graph has is in a cycle of path[]
MaxWalk == MaxNodes + 1

\* what a read of path[] outside [0, n) may yield when the program goes on:
\* any node id, or a value that is again out of range (represented by MaxT)
Garbage == Nodes \cup {MaxT}

\* for(T node = dst; node != src; node = path[node]) insert(begin, node);
\* then insert(begin, src) and return. One test of the loop condition and,
\* if it holds, one iteration. The loop is the same in DFS, BFS and dijkstra.
ReconstructStep ==
    /\ pc = "reconstruct"
    /\ IF node = src
       THEN /\ reconstructed_path' = <<src>> \o reconstructed_path
            /\ pc' = "returned"
            /\ UNCHANGED <<node, fault>>
       ELSE /\ Len(reconstructed_path) < MaxWalk
            /\ reconstructed_path' = <<node>> \o reconstructed_path
            /\ IF node \in Nodes
               THEN /\ node' = path[node]
                    /\ UNCHANGED <<pc, fault>>
               ELSE \* path[node] is read out of bounds: undefined behaviour
                    /\ fault' = TRUE
                    /\ \E crash \in BOOLEAN :
                          IF crash
                          THEN pc' = "crashed" /\ UNCHANGED node
                          ELSE \E value \in Garbage :
                                  node' = value /\ UNCHANGED pc
    /\ UNCHANGED <<seg_vars, graph_vars, alg, src, dst, path, visited, costs,
                   to_visit, priority_queue>>

\* the value a finished query hands to its caller
ReturnedPath == reconstructed_path
ReturnedCost == costs[dst]

\* the query method returns: its locals are destroyed
ReturnLocals ==
    /\ pc = "returned"
    /\ pc' = "idle" /\ alg' = "none" /\ src' = 0 /\ dst' = 0
    /\ path' = <<>> /\ visited' = <<>> /\ costs' = <<>>
    /\ to_visit' = <<>> /\ priority_queue' = <<>>
    /\ node' = 0 /\ reconstructed_path' = <<>> /\ fault' = FALSE

Return ==
    /\ ReturnLocals
    /\ UNCHANGED <<seg_vars, graph_vars>>

\* the same return, with the call, the value it returned and the graph it
\* left behind written down in the history variable
ReturnRecorded ==
    /\ ReturnLocals
    /\ call' = [op |-> alg, src |-> src, dst |-> dst,
                path |-> ReturnedPath,
                cost |-> IF alg = "dijkstra" THEN ReturnedCost ELSE 0,
                fault |-> fault,
                adjacency_list |-> adjacency_list, weights |-> weights,
                updated |-> FALSE]
    /\ UNCHANGED <<tree, arr, arr_size, graph_vars>>

\* --------------------------------------------------------- SegmentTree ---
\* values offered as array elements and as new_val (T is int in main)
Values == {-1, 1, 2}

\* ceil(log2(n)) for n >= 1
RECURSIVE CeilLog2(_)
CeilLog2(n) == IF n <= 1 THEN 0 ELSE 1 + CeilLog2((n + 1) \div 2)

\* size of the tree vector: 2 * 2^ceil(log2(arr_size)) - 1
TreeSize(n) == 2 * Pow2(CeilLog2(n)) - 1

Mid(left, right) == left + (right - left) \div 2

\* build_tree: the tree vector t after the call; the call returns t[st_index]
RECURSIVE build_tree(_, _, _, _, _)
build_tree(t, a, left, right, st_index) ==
    IF left = right
    THEN [t EXCEPT ![st_index] = a[left]]
    ELSE LET mid == Mid(left, right)
             t1 == build_tree(t, a, left, mid, 2 * st_index + 1)
             t2 == build_tree(t1, a, mid + 1, right, 2 * st_index + 2)
         IN  [t2 EXCEPT ![st_index] = t2[2 * st_index + 1] + t2[2 * st_index + 2]]

RECURSIVE get_sum_helper(_, _, _, _, _)
get_sum_helper(query_start, query_end, left, right, st_index) ==
    IF query_start <= left /\ query_end >= right
    THEN tree[st_index]
    ELSE IF right < query_start \/ left > query_end
    THEN 0
    ELSE LET mid == Mid(left, right)
         IN  get_sum_helper(query_start, query_end, left, mid, 2 * st_index + 1)
             + get_sum_helper(query_start, query_end, mid + 1, right, 2 * st_index + 2)

\* mutant of update_helper: the right subtree is never descended into
RECURSIVE update_helper_left_only(_, _, _, _, _, _)
update_helper_left_only(t, difference, index, left, right, st_index) ==
    IF index < left \/ index > right
    THEN t
    ELSE LET t0 == [t EXCEPT ![st_index] = @ + difference]
         IN  IF left = right
             THEN t0
             ELSE update_helper_left_only(t0, difference, index, left,
                                          Mid(left, right), 2 * st_index + 1)

\* update_helper: the tree vector t after the call
RECURSIVE update_helper(_, _, _, _, _, _)
update_helper(t, difference, index, left, right, st_index) ==
    IF index < left \/ index > right
    THEN t
    ELSE LET t0 == [t EXCEPT ![st_index] = @ + difference]
         IN  IF left = right
             THEN t0
             ELSE LET mid == Mid(left, right)
                      t1 == update_helper(t0, difference, index, left, mid,
                                          2 * st_index + 1)
                  IN  update_helper(t1, difference, index, mid + 1, right,
                                    2 * st_index + 2)

\* SegmentTree(a): copies a, resizes the tree (zero-filled) and builds it
SegmentTree(a) ==
    LET n == Cardinality(DOMAIN a)
    IN  /\ arr = a
        /\ arr_size = n
        /\ tree = build_tree([k \in 0 .. TreeSize(n) - 1 |-> 0], a, 0, n - 1, 0)
        /\ call = [op |-> "construct", updated |-> FALSE]

\* no SegmentTree object exists
NoTree ==
    /\ tree = <<>> /\ arr = <<>> /\ arr_size = 0
    /\ call = [op |-> "none", updated |-> FALSE]

get_sum(query_start, query_end) ==
    /\ call' = [op |-> "get_sum", start |-> query_start, end |-> query_end,
                value |-> get_sum_helper(query_start, query_end, 0, arr_size - 1, 0),
                updated |-> call.updated]
    /\ UNCHANGED <<tree, arr, arr_size, graph_vars, query_vars>>

update(index, new_val) ==
    LET diff == new_val - arr[index]
    IN  /\ arr' = [arr EXCEPT ![index] = new_val]
        /\ tree' = update_helper(tree, diff, index, 0, arr_size - 1, 0)
        /\ call' = [op |-> "update", index |-> index, new_val |-> new_val,
                    updated |-> TRUE]
        /\ UNCHANGED <<arr_size, graph_vars, query_vars>>

\* the plain sum arr[from] + ... + arr[to] of the array kept side by side
RECURSIVE RangeSum(_, _, _)
RangeSum(a, from, to) == IF from > to THEN 0 ELSE a[from] + RangeSum(a, from + 1, to)

\* ---------------------------------------- the graph as the claims see it --
Neighbours(v) == {adjacency_list[v][i] : i \in 1 .. Len(adjacency_list[v])}

\* some adjacency entry of a names b
HasEdge(a, b) == b \in Neighbours(a)

\* p is a sequence of nodes, each joined to the next by an inserted edge
IsPath(p) ==
    /\ \A i \in 1 .. Len(p) : p[i] \in Nodes
    /\ \A i \in 1 .. Len(p) - 1 : HasEdge(p[i], p[i + 1])

RECURSIVE ReachSet(_)
ReachSet(S) ==
    LET S2 == S \cup UNION {Neighbours(v) : v \in S}
    IN  IF S2 = S THEN S ELSE ReachSet(S2)

\* d can be reached from s along inserted edges
Reachable(s, d) == d \in ReachSet({s})

SetMin(S) == CHOOSE x \in S : \A y \in S : x <= y

\* larger than the weight of any simple path, in unbounded integers
Unreached == SumLen(weights, Cardinality(DOMAIN weights) - 1) * MaxT + Cardinality(Nodes) + 1

\* every adjacency entry, as <<node, index>>
AllEntries == UNION {{<<u, i>> : i \in 1 .. Len(adjacency_list[u])} : u \in Nodes}

\* one round of relaxing every adjacency entry, in unbounded integers;
\* every entry weighs 1 when byWeight is FALSE; inf marks the unreached nodes
RelaxRound(D, byWeight, inf) ==
    [v \in Nodes |->
        SetMin({D[v]} \cup
               {D[e[1]] + (IF byWeight THEN weights[e[1]][e[2]] ELSE 1) :
                   e \in {x \in AllEntries :
                            /\ adjacency_list[x[1]][x[2]] = v
                            /\ D[x[1]] < inf}})]

RECURSIVE RelaxRounds(_, _, _, _)
RelaxRounds(D, byWeight, inf, k) ==
    IF k = 0 THEN D
    ELSE RelaxRounds(RelaxRound(D, byWeight, inf), byWeight, inf, k - 1)

\* least total weight (least edge count) of a path from s to d
Shortest(s, d, byWeight) ==
    LET inf == Unreached
    IN  RelaxRounds([v \in Nodes |-> IF v = s THEN 0 ELSE inf],
                    byWeight, inf, Cardinality(Nodes))[d]
MinWeight(s, d) == Shortest(s, d, TRUE)
MinEdgeCount(s, d) == Shortest(s, d, FALSE)

\* weights of the entries of a that name b
EntryWeights(a, b) ==
    {weights[a][i] : i \in {j \in 1 .. Len(adjacency_list[a]) : adjacency_list[a][j] = b}}

\* ------------------------------------------------------ specifications ---
\* Spec: any graph of up to MaxNodes nodes and MaxEdges edges, any query
Init ==
    /\ \E n \in 1 .. MaxNodes : Grafo(n)
    /\ edges = {}
    /\ NoQuery
    /\ NoTree

AddEdge ==
    /\ EdgeCount < MaxEdges
    /\ \E from, to \in Nodes, weight \in Weights : add_edge(from, to, weight)

Query ==
    \E s, d \in Nodes : StartDFS(s, d) \/ StartBFS(s, d) \/ StartDijkstra(s, d)

Next ==
    \/ AddEdge
    \/ Query
    \/ DFSStep
    \/ BFSStep
    \/ DijkstraStep
    \/ ReconstructStep
    \/ Return

Spec == Init /\ [][Next]_vars

\* SpecGraph: construction and add_edge alone
NextGraph == AddEdge

SpecGraph == Init /\ [][NextGraph]_vars

\* SpecRange: add_edge with ids in range and with ids one past the last node
AddEdgeInRange == ~fault /\ AddEdge

AddEdgeOutOfRange ==
    \E from, to \in 0 .. Cardinality(Nodes), weight \in Weights :
        add_edge_unchecked(from, to, weight)

NextRange == AddEdgeInRange \/ AddEdgeOutOfRange

SpecRange == Init /\ [][NextRange]_vars

\* SpecRepeat: a graph of up to MaxEdgesDijkstra edges is built, one query is
\* made, and then the same query is made again and again on that graph
AddEdgeBefore ==
    /\ call.op = "none"
    /\ EdgeCount < MaxEdgesDijkstra
    /\ \E from, to \in Nodes, weight \in Weights : add_edge(from, to, weight)

QueryFirst ==
    /\ call.op = "none"
    /\ \E s, d \in Nodes : StartDFS(s, d) \/ StartBFS(s, d) \/ StartDijkstra(s, d)

QueryAgain ==
    \/ call.op = "DFS" /\ StartDFS(call.src, call.dst)
    \/ call.op = "BFS" /\ StartBFS(call.src, call.dst)
    \/ call.op = "dijkstra" /\ StartDijkstra(call.src, call.dst)

NextRepeat ==
    \/ AddEdgeBefore
    \/ QueryFirst
    \/ QueryAgain
    \/ DFSStep
    \/ BFSStep
    \/ DijkstraStep
    \/ ReconstructStep
    \/ ReturnRecorded

SpecRepeat == Init /\ [][NextRepeat]_vars

\* SpecDijkstra: graphs of up to MaxEdgesDijkstra edges, dijkstra queries
AddEdgeDijkstra ==
    /\ EdgeCount < MaxEdgesDijkstra
    /\ \E from, to \in Nodes, weight \in Weights : add_edge(from, to, weight)

QueryDijkstra == \E s, d \in Nodes : StartDijkstra(s, d)

NextDijkstra ==
    \/ AddEdgeDijkstra
    \/ QueryDijkstra
    \/ DijkstraStep
    \/ ReconstructStep
    \/ Return

SpecDijkstra == Init /\ [][NextDijkstra]_vars

\* SpecMain: the graph main() builds, then any query on it
RefNodes == 6
RefEdges == << <<0, 1, 7>>, <<0, 5, 14>>, <<1, 2, 10>>, <<1, 3, 20>>,
               <<2, 3, 11>>, <<2, 5, 1>>, <<2, 4, 3>>, <<4, 5, 9>> >>

InitMain ==
    /\ Grafo(RefNodes)
    /\ edges = {}
    /\ NoQuery
    /\ NoTree

\* the next add_edge call of main
MainAddEdge ==
    /\ EdgeCount < Len(RefEdges)
    /\ LET e == RefEdges[EdgeCount + 1] IN add_edge(e[1], e[2], e[3])

MainBuilt == EdgeCount = Len(RefEdges)

MainQuery ==
    /\ MainBuilt
    /\ \E s, d \in Nodes : StartDFS(s, d) \/ StartBFS(s, d) \/ StartDijkstra(s, d)

NextMain ==
    \/ MainAddEdge
    \/ MainQuery
    \/ DFSStep
    \/ BFSStep
    \/ DijkstraStep
    \/ ReconstructStep
    \/ Return

SpecMain == InitMain /\ [][NextMain]_vars

\* SpecSeg: a SegmentTree built from any array of 1..MaxLen values, then any
\* in-bounds update and get_sum
Arrays == UNION {[0 .. n - 1 -> Values] : n \in 1 .. MaxLen}

InitSeg ==
    /\ adjacency_list = <<>> /\ weights = <<>> /\ edges = {}
    /\ NoQuery
    /\ \E a \in Arrays : SegmentTree(a)

Update == \E index \in 0 .. arr_size - 1, new_val \in Values : update(index, new_val)

GetSum ==
    \E query_start, query_end \in 0 .. arr_size - 1 :
        query_start <= query_end /\ get_sum(query_start, query_end)

NextSeg == Update \/ GetSum

SpecSeg == InitSeg /\ [][NextSeg]_vars

\* ------------------------------------------------------------- claims ----
\* a query method has returned; ReturnedPath (and ReturnedCost) is its value
Returned == pc = "returned"

\* p starts with s, ends with d and is a path of the graph
ValidPath(p, s, d) ==
    /\ Len(p) >= 1
    /\ p[1] = s
    /\ p[Len(p)] = d
    /\ IsPath(p)

\* the total weights p can have, one adjacency entry taken per consecutive pair
RECURSIVE PathWeights(_)
PathWeights(p) ==
    IF Len(p) <= 1 THEN {0}
    ELSE {w + rest : w \in EntryWeights(p[1], p[2]), rest \in PathWeights(Tail(p))}

\* C1: whenever dst is reachable from src, the sequence DFS, BFS or dijkstra
\* returns starts with src, ends with dst and joins consecutive elements by
\* inserted edges.
C1_ReturnedPathIsValid ==
    (Returned /\ Reachable(src, dst)) => ValidPath(ReturnedPath, src, dst)

RECURSIVE SumSeq(_)
SumSeq(q) == IF q = <<>> THEN 0 ELSE Head(q) + SumSeq(Tail(q))
RECURSIVE SumEntries(_)
SumEntries(k) == IF k < 0 THEN 0 ELSE SumSeq(weights[k]) + SumEntries(k - 1)

\* all weight entries together stay below max(T): no cost that dijkstra
\* computes along a walk can reach max(T)
CostsStayBelowMax == SumEntries(Cardinality(DOMAIN weights) - 1) < MaxT

\* C1, the part that holds: the sequences DFS and BFS return are valid, and
\* so is the one dijkstra returns when no cost can reach max(T).
C1_ValidUnlessCostReachesMax ==
    (Returned /\ Reachable(src, dst) /\ (alg = "dijkstra" => CostsStayBelowMax))
        => ValidPath(ReturnedPath, src, dst)

\* C2: whenever dst is reachable from src, the path BFS returns has no more
\* edges than any path from src to dst.
C2_BFSMinimal ==
    (Returned /\ alg = "BFS" /\ Reachable(src, dst))
        => Len(ReturnedPath) - 1 <= MinEdgeCount(src, dst)

\* C3: whenever dst is reachable from src, no path from src to dst weighs
\* strictly less than the cost dijkstra returns.
C3_DijkstraOptimal ==
    (Returned /\ alg = "dijkstra" /\ Reachable(src, dst))
        => ReturnedCost <= MinWeight(src, dst)

\* C3 witness: dijkstra returned, for a dst other than src, a cost below the
\* weight of one of the entries that join src to dst.
C3_Witness ==
    /\ Returned /\ alg = "dijkstra" /\ Reachable(src, dst)
    /\ src # dst
    /\ \E w \in EntryWeights(src, dst) : ReturnedCost < w

\* C4: whenever dst is reachable from src, the cost dijkstra returns is the
\* sum of the weights of adjacency entries along the path it returns, one
\* entry per consecutive pair.
C4_CostIsPathWeight ==
    (Returned /\ alg = "dijkstra" /\ Reachable(src, dst))
        => ReturnedCost \in PathWeights(ReturnedPath)

\* C5: a query whose dst is unreachable from src never reads path[] out of
\* bounds, never returns a sequence (none is a path to dst) and never walks
\* back over more nodes than the graph has.
C5_UnreachableFailsCleanly ==
    (alg # "none" /\ ~Reachable(src, dst))
        => /\ ~fault
           /\ ~Returned
           /\ Len(reconstructed_path) <= Cardinality(Nodes)

\* dijkstra(0, 3), resp. BFS(0, 3), has returned on the graph main() builds
RefDijkstraReturned ==
    MainBuilt /\ Returned /\ alg = "dijkstra" /\ src = 0 /\ dst = 3
RefBFSReturned ==
    MainBuilt /\ Returned /\ alg = "BFS" /\ src = 0 /\ dst = 3

\* C6 as stated: on the reference graph dijkstra(0, 3) returns cost 20 via
\* [0, 1, 3] or another path of that cost.
C6_Original ==
    RefDijkstraReturned
        => /\ ReturnedCost = 20
           /\ ValidPath(ReturnedPath, 0, 3)
           /\ 20 \in PathWeights(ReturnedPath)

\* C6 amended: on the reference graph dijkstra(0, 3) returns cost 26 via
\* [0, 5, 2, 3], and 26 is the least weight of a path from 0 to 3.
C6_DijkstraReference ==
    RefDijkstraReturned
        => /\ ReturnedCost = 26
           /\ ReturnedPath = <<0, 5, 2, 3>>
           /\ MinWeight(0, 3) = 26

\* C6 witness: the query has returned on the complete reference graph.
C6_Witness == RefDijkstraReturned /\ EdgeCount = 8

C8_DijkstraSelf ==
    (alg = "dijkstra" /\ src = dst)
        => /\ pc \in {"loop", "reconstruct", "returned"}
           /\ pc = "loop" => priority_queue = <<<<0, src>>>>
           /\ pc = "reconstruct" => node = src /\ reconstructed_path = <<>>
           /\ Returned => ReturnedCost = 0 /\ ReturnedPath = <<src>>

\* C8 witness: dijkstra(src, src) returned for a node with a self-loop and
\* another edge.
C8_Witness ==
    /\ Returned /\ alg = "dijkstra" /\ src = dst
    /\ HasEdge(src, src)
    /\ \E v \in Nodes \ {src} : HasEdge(src, v)

\* C9: every inserted edge (a, b, w) is found at one index of a's lists as
\* (b, w) and at one index of b's lists as (a, w), and the two lists of a
\* node always have the same length.
C9_EdgeSymmetry ==
    /\ \A e \in edges :
          /\ \E i \in 1 .. Len(adjacency_list[e[1]]) :
                /\ i <= Len(weights[e[1]])
                /\ adjacency_list[e[1]][i] = e[2]
                /\ weights[e[1]][i] = e[3]
          /\ \E j \in 1 .. Len(adjacency_list[e[2]]) :
                /\ j <= Len(weights[e[2]])
                /\ adjacency_list[e[2]][j] = e[1]
                /\ weights[e[2]][j] = e[3]
    /\ \A v \in Nodes : Len(adjacency_list[v]) = Len(weights[v])

\* C9 witness: a self-loop and two edges of different weights between the
\* same two nodes have been inserted.
C9_Witness ==
    /\ \E e \in edges : e[1] = e[2]
    /\ \E e, f \in edges : e[1] # e[2] /\ e[1] = f[1] /\ e[2] = f[2] /\ e[3] # f[3]

\* C10: get_sum(start, end) returns the sum of the current elements
\* arr[start..end], every update so far applied.
C10_RangeSum ==
    call.op = "get_sum" => call.value = RangeSum(arr, call.start, call.end)

\* C10 witness: after an update, get_sum was asked for a range of several
\* elements that is not the whole of an array of three elements.
C10_Witness ==
    /\ call.op = "get_sum" /\ call.updated
    /\ arr_size = 3
    /\ 0 < call.start /\ call.start < call.end

\* C11: add_edge called with from or to outside [0, n) fails in a defined
\* way (no undefined behaviour, the program goes on) and leaves every
\* adjacency sequence as it was before the call.
C11_OutOfRangeRejected ==
    call.op = "add_edge"
        => /\ ~fault
           /\ pc = "idle"
           /\ adjacency_list = call.before

\* the same query as the last one that returned is running or has finished
Repeated == alg # "none" /\ call.op = alg /\ call.src = src /\ call.dst = dst

\* C12: a query made again with the same arguments on the unmodified graph
\* does not die, returns what the earlier call returned (the path, and the
\* cost for dijkstra), and finds and leaves adjacency_list and weights as
\* the earlier call left them.
C12_RepeatedQueryAgrees ==
    Repeated
        => /\ pc # "crashed"
           /\ adjacency_list = call.adjacency_list
           /\ weights = call.weights
           /\ Returned => /\ ReturnedPath = call.path
                          /\ alg = "dijkstra" => ReturnedCost = call.cost

\* C12, the part that holds: the two calls agree whenever neither of them
\* read path[] out of bounds.
C12_AgreesUnlessOutOfBounds ==
    (Repeated /\ ~fault /\ ~call.fault)
        => /\ pc # "crashed"
           /\ adjacency_list = call.adjacency_list
           /\ weights = call.weights
           /\ Returned => /\ ReturnedPath = call.path
                          /\ alg = "dijkstra" => ReturnedCost = call.cost

\* C13: while DFS or BFS runs, a predecessor path[n] that has been recorded
\* is never overwritten with a different node by a later step of the query.
C13_FirstDiscoveryWins ==
    [][(pc = "loop" /\ alg \in {"DFS", "BFS"} /\ pc' \in {"loop", "reconstruct"})
          => \A n \in Nodes : path[n] # MaxT => path'[n] = path[n]]_vars

\* the step of dijkstra that marks n visited
MarksVisited(n) == alg = "dijkstra" /\ pc = "loop" /\ ~visited[n] /\ visited'[n]

\* C14: a node is marked visited only by a popped entry that carries its
\* recorded cost, and the step that marks it relaxes all its neighbours: no
\* neighbour is left with a cost above that cost plus the entry's weight.
C14_StaleEntryDiscarded ==
    [][\A n \in Nodes :
          MarksVisited(n)
              => /\ Head(priority_queue) = <<costs[n], n>>
                 /\ \A i \in 1 .. Len(adjacency_list[n]) :
                       costs'[adjacency_list[n][i]] <= AddT(costs[n], weights[n][i])]_vars

\* C14 witness: a stale entry is about to be popped, and its node has been
\* marked visited by the cheaper entry pushed after it.
C14_Witness ==
    /\ alg = "dijkstra" /\ pc = "loop" /\ priority_queue # <<>>
    /\ LET top == Head(priority_queue)
       IN  /\ top[2] # dst
           /\ visited[top[2]]
           /\ top[1] > costs[top[2]]

\* what a call add_edge(a, b, x) appends to the sequence of node v, where x
\* is b on a's adjacency sequence, a on b's, and the weight on both weight
\* sequences
Appended(v, a, b, at_a, at_b) ==
    (IF v = a THEN <<at_a>> ELSE <<>>) \o (IF v = b THEN <<at_b>> ELSE <<>>)

\* C15: every step that changes the graph is one add_edge(a, b, w): it
\* keeps the node count, and the sequences of every node are the old ones
\* with that call's entries appended at the end (one on a's and one on b's,
\* two when a = b, none elsewhere), whether or not a and b were joined.
C15_AppendOnly ==
    [][<<adjacency_list, weights>>' # <<adjacency_list, weights>>
          => /\ DOMAIN adjacency_list' = DOMAIN adjacency_list
             /\ DOMAIN weights' = DOMAIN weights
             /\ \E a, b \in Nodes, w \in Weights :
                   \A v \in Nodes :
                      /\ adjacency_list'[v] = adjacency_list[v] \o Appended(v, a, b, b, a)
                      /\ weights'[v] = weights[v] \o Appended(v, a, b, w, w)]_vars

\* C15 witness: the same pair was inserted twice and then a self-loop, so
\* that one node holds four entries in insertion order.
C15_Witness ==
    \E a, b \in Nodes :
        /\ a # b
        /\ adjacency_list[a] = <<b, b, a, a>>
        /\ adjacency_list[b] = <<a, a>>
        /\ Len(weights[a]) = 4

\* no node occurs twice in the sequence
NoRepeats(seq) == \A i, j \in 1 .. Len(seq) : i # j => seq[i] # seq[j]

\* entries in all adjacency sequences together
AdjacencyEntries == SumLen(adjacency_list, Cardinality(Nodes) - 1)

\* the frontier never holds more than the entry for src and one entry per
\* adjacency entry of an expanded node, each node being expanded once
FrontierBounded ==
    Len(to_visit) + Len(priority_queue) <= 1 + AdjacencyEntries

\* C16: in the search loop every node is expanded at most once, so that the
\* frontier stays within the entries those expansions can push; and when
\* dst is reachable the backward walk collects no node twice and at most
\* n - 1 nodes before it reaches src.
C16_Terminates ==
    /\ pc = "loop" => FrontierBounded
    /\ (pc \in {"reconstruct", "returned"} /\ Reachable(src, dst))
          => /\ NoRepeats(reconstructed_path)
             /\ pc = "reconstruct" => Len(reconstructed_path) <= Cardinality(Nodes) - 1
             /\ pc = "returned" => Len(reconstructed_path) <= Cardinality(Nodes)

\* C16, the part that holds: the search loops of the three methods, and the
\* backward walk of DFS and BFS, and that of dijkstra when no cost can
\* reach max(T).
C16_TerminatesUnlessCostReachesMax ==
    /\ pc = "loop" => FrontierBounded
    /\ (pc \in {"reconstruct", "returned"} /\ Reachable(src, dst)
          /\ (alg = "dijkstra" => CostsStayBelowMax))
          => /\ NoRepeats(reconstructed_path)
             /\ pc = "reconstruct" => Len(reconstructed_path) <= Cardinality(Nodes) - 1
             /\ pc = "returned" => Len(reconstructed_path) <= Cardinality(Nodes)

SetMax(S) == CHOOSE x \in S : \A y \in S : x >= y

\* the largest weight, in unbounded integers, of a path that starts at v and
\* enters no node of seen (a path visits no node twice)
RECURSIVE Heaviest(_, _)
Heaviest(v, seen) ==
    LET onward == {i \in 1 .. Len(adjacency_list[v]) : adjacency_list[v][i] \notin seen}
    IN  IF onward = {} THEN 0
        ELSE SetMax({weights[v][i]
                        + Heaviest(adjacency_list[v][i], seen \cup {adjacency_list[v][i]}) :
                     i \in onward})

\* every path weight from s is at most max(T)
PathWeightsFit(s) == Heaviest(s, {s}) <= MaxT

\* C17: the node whose neighbours dijkstra relaxes has a cost below max(T);
\* and when every path weight from src is at most max(T), none of the sums
\* costs[current] + weight exceeds max(T) and the cost of a visited node
\* never changes once line 320 has marked the node.
C17_NoWrapWhenPathsFit ==
    [][\A n \in Nodes :
          /\ MarksVisited(n) => costs[n] < MaxT
          /\ (alg = "dijkstra" /\ pc = "loop" /\ PathWeightsFit(src))
                => /\ MarksVisited(n)
                        => \A i \in 1 .. Len(adjacency_list[n]) :
                              costs[n] + weights[n][i] <= MaxT
                   /\ visited'[n] => costs'[n] = costs[n]]_vars

\* C17, the part that holds: max(T) is never an operand of the addition.
C17_SentinelNeverAdded ==
    [][\A n \in Nodes : MarksVisited(n) => costs[n] < MaxT]_vars

=============================================================================
